---- MODULE Spec2Model ----
(***************************************************************************)
(* Jira Issue Copy Helper: the background script's URL classifier          *)
(* (hasIdentifiableIssue / updatePageAction), the content script's         *)
(* extractIssueData and generateFormats, and the getIssueData handler.     *)
(*                                                                         *)
(* JavaScript strings are modelled as sequences of one-character strings,  *)
(* so that URL parsing, regular-expression matching, trimming and case     *)
(* conversion are computed character by character as the code does.        *)
(***************************************************************************)
EXTENDS Integers, Sequences, FiniteSets, TLC

\* JavaScript null and undefined: one-element tuples holding a token that is
\* no character, so that they compare with strings (tuples of characters)
\* and equal none of them.
Null == <<"null">>
Undefined == <<"undefined">>

(***************************************************************************)
(* Characters and character classes used by the regular expressions.       *)
(***************************************************************************)
UpperSeq == <<"A","B","C","D","E","F","G","H","I","J","K","L","M",
              "N","O","P","Q","R","S","T","U","V","W","X","Y","Z">>
LowerSeq == <<"a","b","c","d","e","f","g","h","i","j","k","l","m",
              "n","o","p","q","r","s","t","u","v","w","x","y","z">>
Upper == {UpperSeq[i] : i \in 1..26}
Lower == {LowerSeq[i] : i \in 1..26}
Digit == {"0","1","2","3","4","5","6","7","8","9"}
\* [A-Z] under the /i flag
AlphaI == Upper \cup Lower
\* [A-Z0-9] under the /i flag
AlnumI == AlphaI \cup Digit
\* \s (the only white space of the modelled alphabet is the blank)
Space == {" "}

\* String.prototype.toUpperCase / toLowerCase on one character
UpperChar(c) ==
  IF c \in Lower THEN UpperSeq[CHOOSE i \in 1..26 : LowerSeq[i] = c] ELSE c
LowerChar(c) ==
  IF c \in Upper THEN LowerSeq[CHOOSE i \in 1..26 : UpperSeq[i] = c] ELSE c
toUpperCase(s) == [i \in 1..Len(s) |-> UpperChar(s[i])]
toLowerCase(s) == [i \in 1..Len(s) |-> LowerChar(s[i])]

\* A value is a string iff it is a sequence (Null and Undefined are not).
IsStr(v) == v # Null /\ v # Undefined
\* JavaScript truthiness of a string-or-null value: !v is true for null,
\* undefined and the empty string.
Truthy(v) == IsStr(v) /\ v # <<>>

(***************************************************************************)
(* String primitives.                                                      *)
(***************************************************************************)
\* does literal lit occur in s starting at index i (1-based)?
MatchAt(s, i, lit) ==
  /\ i >= 1
  /\ i + Len(lit) - 1 <= Len(s)
  /\ \A k \in 1..Len(lit) : s[i + k - 1] = lit[k]
\* the same, ignoring case (a literal under the /i flag)
MatchAtI(s, i, lit) ==
  /\ i >= 1
  /\ i + Len(lit) - 1 <= Len(s)
  /\ \A k \in 1..Len(lit) : LowerChar(s[i + k - 1]) = LowerChar(lit[k])
\* String.prototype.startsWith / endsWith / includes
startsWith(s, lit) == MatchAt(s, 1, lit)
endsWith(s, lit) == Len(lit) <= Len(s) /\ MatchAt(s, Len(s) - Len(lit) + 1, lit)
includes(s, lit) == \E i \in 1..(Len(s) + 1) : MatchAt(s, i, lit)
\* index of the last character of the maximal run of Class characters that
\* starts at i (i - 1 when s[i] is not in Class): a greedy Class* at i
RunEnd(s, i, Class) ==
  CHOOSE j \in (i - 1)..Len(s) :
    /\ (j = Len(s) \/ s[j + 1] \notin Class)
    /\ \A k \in i..j : s[k] \in Class
\* first index >= from at which a character of Class occurs, Len(s)+1 if none
FirstOf(s, from, Class) ==
  CHOOSE j \in from..(Len(s) + 1) :
    /\ (j = Len(s) + 1 \/ s[j] \in Class)
    /\ \A k \in from..(j - 1) : s[k] \notin Class
\* s[a..b], empty when b < a
Sub(s, a, b) == IF b < a THEN <<>> ELSE SubSeq(s, a, b)
\* String.prototype.trim
trim(s) ==
  LET a == RunEnd(s, 1, Space) + 1
  IN IF a > Len(s) THEN <<>>
     ELSE LET b == CHOOSE j \in a..Len(s) :
                     /\ s[j] \notin Space
                     /\ \A k \in (j + 1)..Len(s) : s[k] \in Space
          IN SubSeq(s, a, b)

(***************************************************************************)
(* new URL(url) with its hostname, pathname, search, hash and origin       *)
(* getters (background_script.js:26-29, content script's window.location). *)
(* Covers the forms  scheme ":" "//" [userinfo "@"] host [":" port]        *)
(* [path] ["?" query] ["#" fragment]  and  scheme ":" opaque-path ; a      *)
(* string with no scheme, or a special scheme with an empty or invalid     *)
(* host, does not parse (the constructor throws TypeError).                *)
(***************************************************************************)
SchemeChars == AlnumI \cup {"+", "-", "."}
SpecialSchemes == {<<"h","t","t","p">>, <<"h","t","t","p","s">>}
\* code points a host may not hold
ForbiddenHost == {" ", "#", "/", ":", "<", ">", "?", "@", "[", "]"}
ParseFailure ==
  [ok |-> FALSE, scheme |-> <<>>, hostname |-> <<>>, port |-> <<>>,
   pathname |-> <<>>, search |-> <<>>, hash |-> <<>>]

\* the part of s before the first character of Class / from it on
Before(s, Class) == Sub(s, 1, FirstOf(s, 1, Class) - 1)
From(s, Class) == Sub(s, FirstOf(s, 1, Class), Len(s))
\* the part of s after the last occurrence of character c (s without one)
AfterLast(s, c) ==
  Sub(s, 1 + (CHOOSE i \in 0..Len(s) :
                /\ (i = 0 \/ s[i] = c)
                /\ \A k \in (i + 1)..Len(s) : s[k] # c), Len(s))

\* s starts with a scheme and its ":"
HasScheme(s) ==
  /\ Len(s) >= 1 /\ s[1] \in AlphaI
  /\ RunEnd(s, 1, SchemeChars) < Len(s)
  /\ s[RunEnd(s, 1, SchemeChars) + 1] = ":"
SchemeOf(s) == toLowerCase(SubSeq(s, 1, RunEnd(s, 1, SchemeChars)))
AfterScheme(s) == Sub(s, RunEnd(s, 1, SchemeChars) + 2, Len(s))
\* "//" authority: the authority ends at the first "/" after it
HasAuthority(hier) == MatchAt(hier, 1, <<"/", "/">>)
AuthorityOf(hier) ==
  IF HasAuthority(hier) THEN Sub(hier, 3, FirstOf(hier, 3, {"/"}) - 1)
  ELSE <<>>
PathOf(hier) ==
  IF HasAuthority(hier) THEN Sub(hier, FirstOf(hier, 3, {"/"}), Len(hier))
  ELSE hier
\* userinfo ends at the last "@" of the authority, the port starts at ":"
HostnameOf(authority) == toLowerCase(Before(AfterLast(authority, "@"), {":"}))
PortOf(authority) ==
  Sub(AfterLast(authority, "@"),
      FirstOf(AfterLast(authority, "@"), 1, {":"}) + 1,
      Len(AfterLast(authority, "@")))

\* the URL record from the parts of the string; a special scheme needs
\* "//" and a host, a host holds no forbidden code point, a port only digits
UrlFromParts(scheme, hasAuthority, hostname, port, path, search, hash) ==
  IF scheme \in SpecialSchemes /\ (~hasAuthority \/ hostname = <<>>)
  THEN ParseFailure
  ELSE IF \E i \in 1..Len(hostname) : hostname[i] \in ForbiddenHost
  THEN ParseFailure
  ELSE IF \E i \in 1..Len(port) : port[i] \notin Digit THEN ParseFailure
  ELSE [ok |-> TRUE, scheme |-> scheme, hostname |-> hostname, port |-> port,
        pathname |-> IF scheme \in SpecialSchemes /\ path = <<>>
                     THEN <<"/">> ELSE path,
        \* search and hash are empty when only "?" or "#" is there
        search |-> IF Len(search) <= 1 THEN <<>> ELSE search,
        hash |-> IF Len(hash) <= 1 THEN <<>> ELSE hash]
\* scheme, the hierarchical part (before the first "?" or "#"), "?query" and
\* "#fragment"
UrlRecord(scheme, hier, search, hash) ==
  UrlFromParts(scheme, HasAuthority(hier), HostnameOf(AuthorityOf(hier)),
               PortOf(AuthorityOf(hier)), PathOf(hier), search, hash)
\* mutant: the fragment is not cut off, it stays in the path or the query
SplitUrl_KeepFragment(scheme, rest) ==
  UrlRecord(scheme, Before(rest, {"?"}), From(rest, {"?"}), <<>>)
\* the fragment starts at the first "#", the query at the first "?" before it
SplitUrl(scheme, rest) ==
  UrlRecord(scheme, Before(rest, {"?", "#"}),
            From(Before(rest, {"#"}), {"?"}), From(rest, {"#"}))
ParseUrl(s) ==
  IF HasScheme(s) THEN SplitUrl(SchemeOf(s), AfterScheme(s)) ELSE ParseFailure

\* URLSearchParams: the names of the parameters of a search string
\* ("?a=1&b" -> a, b); a piece ends at "&", its name at the first "=".
ParamNameAt(qs, i) == Sub(qs, i, FirstOf(qs, i, {"=", "&"}) - 1)
ParamValueAt(qs, i) ==
  LET e == FirstOf(qs, i, {"&"})
      n == FirstOf(qs, i, {"=", "&"})
  IN Sub(qs, n + 1, e - 1)
\* the start indices of the non-empty pieces of a query string
ParamStarts(qs) ==
  {i \in 1..Len(qs) : (i = 1 \/ qs[i - 1] = "&") /\ qs[i] # "&"}
\* the query string without its leading "?"
QueryOf(search) == IF startsWith(search, <<"?">>) THEN Tail(search) ELSE search
\* URLSearchParams.prototype.has(name)
searchParamsHas(search, name) ==
  \E i \in ParamStarts(QueryOf(search)) : ParamNameAt(QueryOf(search), i) = name
\* URLSearchParams.prototype.get(name): the first value, Null if absent
searchParamsGet(search, name) ==
  LET qs == QueryOf(search)
      hits == {i \in ParamStarts(qs) : ParamNameAt(qs, i) = name}
  IN IF hits = {} THEN Null
     ELSE ParamValueAt(qs, CHOOSE i \in hits : \A j \in hits : i <= j)

(***************************************************************************)
(* Background script: hasIdentifiableIssue (background_script.js:22-72).   *)
(* A call completes by returning a value or by throwing.                   *)
(***************************************************************************)
Return(v) == [threw |-> FALSE, value |-> v]
Throw == [threw |-> TRUE, value |-> FALSE]

AtlassianSuffix == <<".","a","t","l","a","s","s","i","a","n",".","n","e","t">>
BrowsePrefix == <<"/","b","r","o","w","s","e","/">>
SoftwarePrefix == <<"/","j","i","r","a","/","s","o","f","t","w","a","r","e","/">>
BoardsSegment == <<"/","b","o","a","r","d","s","/">>
BacklogSegment == <<"/","b","a","c","k","l","o","g">>
TimelineSegment == <<"/","t","i","m","e","l","i","n","e">>
JiraPrefix == <<"/","j","i","r","a","/">>
SelectedIssue == <<"s","e","l","e","c","t","e","d","I","s","s","u","e">>

\* [A-Z][A-Z0-9]+-\d+ under /i, matched at index i: the index of the last
\* character of the (greedy) match, 0 when it does not match there.
IssueKeyEndAt(s, i) ==
  IF ~(i >= 1 /\ i <= Len(s) /\ s[i] \in AlphaI) THEN 0
  ELSE LET a == RunEnd(s, i + 1, AlnumI)
       IN IF ~(a >= i + 1 /\ a + 1 <= Len(s) /\ s[a + 1] = "-") THEN 0
          ELSE LET d == RunEnd(s, a + 2, Digit)
               IN IF d >= a + 2 THEN d ELSE 0

\* mutant: the expression without its /i flag
BrowseIssueTest_CaseSensitive(s) ==
  \E i \in 1..Len(s) :
    /\ MatchAt(s, i, BrowsePrefix)
    /\ IssueKeyEndAt(s, i + Len(BrowsePrefix)) > 0
    /\ \A k \in (i + Len(BrowsePrefix))..IssueKeyEndAt(s, i + Len(BrowsePrefix)) :
         s[k] \notin Lower
\* /\/browse\/[A-Z][A-Z0-9]+-\d+/i.test(s)
BrowseIssueTest(s) ==
  \E i \in 1..Len(s) :
    MatchAtI(s, i, BrowsePrefix) /\ IssueKeyEndAt(s, i + Len(BrowsePrefix)) > 0

\* \/jira\/software\/[^/]+\/boards\/\d+ matched at index i: the index of the
\* last digit of the board id, 0 when it does not match there.
BoardEndAt(s, i) ==
  IF ~MatchAt(s, i, SoftwarePrefix) THEN 0
  ELSE LET b == i + Len(SoftwarePrefix)
           p == FirstOf(s, b, {"/"})
       IN IF ~(p > b /\ MatchAt(s, p, BoardsSegment)) THEN 0
          ELSE LET d == RunEnd(s, p + Len(BoardsSegment), Digit)
               IN IF d >= p + Len(BoardsSegment) THEN d ELSE 0

\* /\/jira\/software\/[^/]+\/boards\/\d+\/?$/.test(s)
BoardViewTest(s) ==
  \E i \in 1..Len(s) :
    LET d == BoardEndAt(s, i)
    IN d > 0 /\ (d = Len(s) \/ (d + 1 = Len(s) /\ s[d + 1] = "/"))
\* /\/jira\/software\/[^/]+\/boards\/\d+\/backlog\/?/.test(s)
BacklogViewTest(s) ==
  \E i \in 1..Len(s) :
    LET d == BoardEndAt(s, i) IN d > 0 /\ MatchAt(s, d + 1, BacklogSegment)
\* /\/jira\/software\/[^/]+\/boards\/\d+\/timeline\/?/.test(s)
TimelineViewTest(s) ==
  \E i \in 1..Len(s) :
    LET d == BoardEndAt(s, i) IN d > 0 /\ MatchAt(s, d + 1, TimelineSegment)

\* mutant: the suffix compared without its leading dot
IsAtlassianHost_NoDot(hostname) == endsWith(hostname, Tail(AtlassianSuffix))
\* hostname.endsWith(".atlassian.net") (line 32)
IsAtlassianHost(hostname) == endsWith(hostname, AtlassianSuffix)

\* mutant: a board view is accepted whether or not an issue is selected
ClassifyParsed_BoardShown(hostname, pathname, hasSelectedIssue) ==
  IF ~IsAtlassianHost(hostname) THEN FALSE
  ELSE IF BrowseIssueTest(pathname) THEN TRUE
  ELSE IF BoardViewTest(pathname) THEN TRUE
  ELSE IF BacklogViewTest(pathname) THEN hasSelectedIssue
  ELSE IF TimelineViewTest(pathname) THEN hasSelectedIssue
  ELSE IF startsWith(pathname, JiraPrefix) /\ hasSelectedIssue THEN TRUE
  ELSE FALSE
\* mutant: the catch-all rule for other /jira/ paths is missing
ClassifyParsed_NoCatchAll(hostname, pathname, hasSelectedIssue) ==
  IF ~IsAtlassianHost(hostname) THEN FALSE
  ELSE IF BrowseIssueTest(pathname) THEN TRUE
  ELSE IF BoardViewTest(pathname) THEN hasSelectedIssue
  ELSE IF BacklogViewTest(pathname) THEN hasSelectedIssue
  ELSE IF TimelineViewTest(pathname) THEN hasSelectedIssue
  ELSE FALSE
\* mutant: the catch-all rule does not ask for selectedIssue
ClassifyParsed_AnyJiraPath(hostname, pathname, hasSelectedIssue) ==
  IF ~IsAtlassianHost(hostname) THEN FALSE
  ELSE IF BrowseIssueTest(pathname) THEN TRUE
  ELSE IF BoardViewTest(pathname) THEN hasSelectedIssue
  ELSE IF BacklogViewTest(pathname) THEN hasSelectedIssue
  ELSE IF TimelineViewTest(pathname) THEN hasSelectedIssue
  ELSE IF startsWith(pathname, JiraPrefix) THEN TRUE
  ELSE FALSE
\* lines 31-67: the rules, on the parsed URL's hostname and pathname and on
\* searchParams.has("selectedIssue")
ClassifyParsed(hostname, pathname, hasSelectedIssue) ==
  IF ~IsAtlassianHost(hostname) THEN FALSE
  ELSE IF BrowseIssueTest(pathname) THEN TRUE
  ELSE IF BoardViewTest(pathname) THEN hasSelectedIssue
  ELSE IF BacklogViewTest(pathname) THEN hasSelectedIssue
  ELSE IF TimelineViewTest(pathname) THEN hasSelectedIssue
  ELSE IF startsWith(pathname, JiraPrefix) /\ hasSelectedIssue THEN TRUE
  ELSE FALSE
\* lines 26-29: new URL(url) throws on a string that does not parse
ClassifyUrlObj(urlObj) ==
  IF ~urlObj.ok THEN Throw
  ELSE Return(ClassifyParsed(urlObj.hostname, urlObj.pathname,
                             searchParamsHas(urlObj.search, SelectedIssue)))
\* the body of the try block (lines 26-67)
hasIdentifiableIssueTry(url) == ClassifyUrlObj(ParseUrl(url))
\* mutant: no catch, the exception escapes
CatchReturnFalse_Rethrow(completion) == completion
\* lines 68-71: catch (e) { ...; return false; }
CatchReturnFalse(completion) ==
  IF completion.threw THEN Return(FALSE) ELSE completion
\* if (!url) return false; try { ... } catch (e) { return false; }
hasIdentifiableIssue(url) ==
  IF ~Truthy(url) THEN Return(FALSE)
  ELSE CatchReturnFalse(hasIdentifiableIssueTry(url))

\* lines 78-82: the pageAction call made for the tab, "show" or "hide"; none
\* when the classifier's exception escapes
PageActionCall(completion) ==
  IF completion.threw THEN [threw |-> TRUE, pageAction |-> "none"]
  ELSE [threw |-> FALSE,
        pageAction |-> IF completion.value THEN "show" ELSE "hide"]
\* updatePageAction (background_script.js:77-83)
updatePageAction(url) == PageActionCall(hasIdentifiableIssue(url))

(***************************************************************************)
(* Content script: extractIssueData (part_000:21-118).                     *)
(* The page is window.location.href and the parts of the document the      *)
(* function reads: the breadcrumb link's text, the text of the first       *)
(* element each key selector and each summary selector finds (Null when    *)
(* the selector finds no element), and document.title.                     *)
(***************************************************************************)
NumKeySelectors == 5
NumSummarySelectors == 7
JiraWord == <<"J","i","r","a">>

\* the leftmost index at which [A-Z][A-Z0-9]+-\d+ (under /i) matches in s,
\* 0 when String.prototype.match finds nothing
IssueKeySearch(s) ==
  IF \E i \in 1..Len(s) : IssueKeyEndAt(s, i) > 0
  THEN CHOOSE i \in 1..Len(s) :
         /\ IssueKeyEndAt(s, i) > 0
         /\ \A k \in 1..(i - 1) : IssueKeyEndAt(s, k) = 0
  ELSE 0

\* href.match(/\/browse\/([A-Z][A-Z0-9]+-\d+)/i): capture group 1, Null when
\* there is no match (lines 29-31)
BrowseIssueMatch(s) ==
  LET n == Len(BrowsePrefix)
      hits == {i \in 1..Len(s) :
                 MatchAtI(s, i, BrowsePrefix) /\ IssueKeyEndAt(s, i + n) > 0}
  IN IF hits = {} THEN Null
     ELSE LET i == CHOOSE i \in hits : \A j \in hits : i <= j
          IN SubSeq(s, i + n, IssueKeyEndAt(s, i + n))

\* /^[A-Z][A-Z0-9]+-\d+$/i.test(s) (line 40)
IsIssueKey(s) == Len(s) > 0 /\ IssueKeyEndAt(s, 1) = Len(s)

\* text.match(/([A-Z][A-Z0-9]+-\d+)/i): capture group 1, Null when there is
\* no match (line 69)
IssueKeyMatch(s) ==
  LET i == IssueKeySearch(s)
  IN IF i = 0 THEN Null ELSE SubSeq(s, i, IssueKeyEndAt(s, i))

\* does s, from index i to its end, match \s*-\s*Jira under /i ?
JiraSuffixAt(s, i) ==
  LET a == RunEnd(s, i, Space) + 1
  IN /\ a <= Len(s) /\ s[a] = "-"
     /\ LET b == RunEnd(s, a + 1, Space) + 1
        IN MatchAtI(s, b, JiraWord) /\ b + Len(JiraWord) - 1 = Len(s)

\* title.match(/\[([A-Z][A-Z0-9]+-\d+)\]\s*(.+?)(?:\s*-\s*Jira)?$/i) tried at
\* index i (lines 100-102): the index of the "]" that closes the key, 0 when
\* it does not match there. (.+?) needs one character after the "]".
TitleKeyCloseAt(t, i) ==
  IF ~(i <= Len(t) /\ t[i] = "[") THEN 0
  ELSE LET e == IssueKeyEndAt(t, i + 1)
       IN IF e > 0 /\ e + 2 <= Len(t) /\ t[e + 1] = "]" THEN e + 1 ELSE 0
TitleMatchStart(t) ==
  IF \E i \in 1..Len(t) : TitleKeyCloseAt(t, i) > 0
  THEN CHOOSE i \in 1..Len(t) :
         /\ TitleKeyCloseAt(t, i) > 0
         /\ \A k \in 1..(i - 1) : TitleKeyCloseAt(t, k) = 0
  ELSE 0
\* capture group 1 of the title match
TitleKey(t) ==
  LET i == TitleMatchStart(t) IN SubSeq(t, i + 1, TitleKeyCloseAt(t, i) - 1)
\* capture group 2 of the title match, which starts at index a: (.+?) is
\* lazy and stops at the first index from which the rest is \s*-\s*Jira or
\* empty
LazyGroupFrom(t, a) ==
  SubSeq(t, a, CHOOSE j \in a..Len(t) :
                 /\ (j = Len(t) \/ JiraSuffixAt(t, j + 1))
                 /\ \A k \in a..(j - 1) : ~JiraSuffixAt(t, k + 1))
\* \s* after the "]" at index c is greedy but leaves one character to (.+?)
AfterBlanks(t, c) ==
  IF RunEnd(t, c + 1, Space) = Len(t) THEN Len(t)
  ELSE RunEnd(t, c + 1, Space) + 1
TitleSummary(t) ==
  LazyGroupFrom(t, AfterBlanks(t, TitleKeyCloseAt(t, TitleMatchStart(t))))

\* lines 28-34: strategy 1, the key from the URL path
UpperOrNull(m) == IF m # Null THEN toUpperCase(m) ELSE Null
KeyFromBrowseUrl(href) == UpperOrNull(BrowseIssueMatch(href))
\* lines 36-43: strategy 2, the selectedIssue query parameter
KeyIfWellFormed(key, selectedIssue) ==
  IF Truthy(selectedIssue) /\ IsIssueKey(selectedIssue)
  THEN toUpperCase(selectedIssue) ELSE key
KeyFromSelectedIssue(key, search) ==
  IF Truthy(key) THEN key
  ELSE KeyIfWellFormed(key, searchParamsGet(search, SelectedIssue))
\* lines 45-54: strategy 3, the breadcrumb link
KeyFromBreadcrumb(key, breadcrumb) ==
  IF Truthy(key) THEN key
  ELSE IF breadcrumb # Null THEN trim(breadcrumb) ELSE key
\* lines 56-76: the key selectors, in order, first match wins
KeyFromSelectors(key, elems) ==
  IF Truthy(key)
       \/ \A n \in 1..Len(elems) :
            elems[n] = Null \/ IssueKeySearch(elems[n]) = 0
  THEN key
  ELSE toUpperCase(IssueKeyMatch(
         elems[CHOOSE n \in 1..Len(elems) :
                 /\ elems[n] # Null /\ IssueKeySearch(elems[n]) > 0
                 /\ \A m \in 1..(n - 1) :
                      elems[m] = Null \/ IssueKeySearch(elems[m]) = 0]))
\* lines 78-95: the first summary selector whose element has non-blank text
SummaryFromSelectors(elems) ==
  LET hits == {n \in 1..Len(elems) :
                 elems[n] # Null /\ Truthy(trim(elems[n]))}
  IN IF hits = {} THEN Null
     ELSE trim(elems[CHOOSE n \in hits : \A m \in hits : n <= m])

\* window.location.origin and window.location.search
OriginOf(u) ==
  u.scheme \o <<":", "/", "/">> \o u.hostname
    \o (IF u.port = <<>> THEN <<>> ELSE <<":">> \o u.port)
Origin(href) == OriginOf(ParseUrl(href))
Search(href) == ParseUrl(href).search

\* lines 28-76: the key the URL and the key selectors give
KeyBeforeTitle(href, doc) ==
  KeyFromSelectors(
    KeyFromBreadcrumb(
      KeyFromSelectedIssue(KeyFromBrowseUrl(href), Search(href)),
      doc.breadcrumb),
    doc.keyElems)
\* lines 97-109: the page title fallback is taken when no summary was found
\* and the title matches
UseTitle(summary, title) ==
  ~Truthy(summary) /\ Truthy(title) /\ TitleMatchStart(title) > 0
KeyWithTitle(key, summary, title) ==
  IF UseTitle(summary, title) /\ ~Truthy(key) THEN toUpperCase(TitleKey(title))
  ELSE key
SummaryWithTitle(summary, title) ==
  IF UseTitle(summary, title) THEN trim(TitleSummary(title)) ELSE summary
\* lines 111-117: the canonical URL and the returned object
IssueData(href, key, summary) ==
  [key |-> key,
   summary |-> summary,
   url |-> IF Truthy(key) THEN Origin(href) \o BrowsePrefix \o key ELSE href]
ExtractWith(href, title, key, summary) ==
  IssueData(href, KeyWithTitle(key, summary, title),
            SummaryWithTitle(summary, title))
extractIssueData(href, doc) ==
  ExtractWith(href, doc.title, KeyBeforeTitle(href, doc),
              SummaryFromSelectors(doc.summaryElems))

(***************************************************************************)
(* Content script: generateFormats and escapeHtml (part_000:123-147).      *)
(***************************************************************************)
\* the object a function returns when it returns null
NullObject == [null |-> TRUE]

\* div.textContent = text; div.innerHTML: the HTML serialisation of a text
\* node escapes &, < and >
EscapeChar(c) ==
  CASE c = "&" -> <<"&","a","m","p",";">>
    [] c = "<" -> <<"&","l","t",";">>
    [] c = ">" -> <<"&","g","t",";">>
    [] OTHER -> <<c>>
escapeHtml(text) ==
  LET esc[i \in 0..Len(text)] ==
        IF i = 0 THEN <<>> ELSE esc[i - 1] \o EscapeChar(text[i])
  IN esc[Len(text)]

AnchorOpen == <<"<","a"," ","h","r","e","f","=","\"">>
AnchorClose == <<"<","/","a",">">>
\* mutant: the summary is appended whether or not there is one
FullTitle_AlwaysDash(key, summary) == key \o <<" ", "-", " ">> \o summary
\* line 130: const fullTitle = summary ? `${key} - ${summary}` : key
FullTitle(key, summary) ==
  IF Truthy(summary) THEN key \o <<" ", "-", " ">> \o summary ELSE key
\* lines 132-137
Formats(key, url, fullTitle) ==
  [plainText |-> fullTitle,
   markdown |-> <<"[">> \o fullTitle \o <<"]", "(">> \o url \o <<")">>,
   markdownShort |-> <<"[">> \o key \o <<"]", "(">> \o url \o <<")">>,
   html |-> AnchorOpen \o url \o <<"\"", ">">>
              \o escapeHtml(fullTitle) \o AnchorClose]
\* mutant: only a null key is taken for absent (key === null)
generateFormats_NullOnly(issueData) ==
  IF issueData.key = Null THEN NullObject
  ELSE Formats(issueData.key, issueData.url,
               FullTitle(issueData.key, issueData.summary))
generateFormats(issueData) ==
  IF ~Truthy(issueData.key) THEN NullObject
  ELSE Formats(issueData.key, issueData.url,
               FullTitle(issueData.key, issueData.summary))

(***************************************************************************)
(* Bounded inputs.                                                         *)
(***************************************************************************)
\* the most query parameters a generated URL carries
MaxParams == 2

Scheme == <<"h","t","t","p","s",":","/","/">>
Hosts ==
  {<<"x",".","a","t","l","a","s","s","i","a","n",".","n","e","t">>,
   <<"e","x","a","m","p","l","e",".","c","o","m">>,
   <<"n","o","t","a","t","l","a","s","s","i","a","n",".","n","e","t">>}
AtlassianHost == <<"x",".","a","t","l","a","s","s","i","a","n",".","n","e","t">>
\* paths that hold /browse/<KEY>
BrowseKeyPaths ==
  {<<"/","b","r","o","w","s","e","/","A","B","-","1">>,
   <<"/","b","r","o","w","s","e","/","a","b","-","1","/","x">>,
   <<"/","w","i","k","i","/","b","r","o","w","s","e","/","A","B","-","1">>}
\* board, backlog and timeline views
BoardPaths ==
  {<<"/","j","i","r","a","/","s","o","f","t","w","a","r","e","/","p","/","b","o","a","r","d","s","/","1">>,
   <<"/","j","i","r","a","/","s","o","f","t","w","a","r","e","/","p","/","b","o","a","r","d","s","/","1","/">>,
   <<"/","j","i","r","a","/","s","o","f","t","w","a","r","e","/","p","/","b","o","a","r","d","s","/","1","/","b","a","c","k","l","o","g">>,
   <<"/","j","i","r","a","/","s","o","f","t","w","a","r","e","/","p","/","b","o","a","r","d","s","/","1","/","t","i","m","e","l","i","n","e","/">>,
   <<"/","j","i","r","a","/","s","o","f","t","w","a","r","e","/","c","/","p","r","o","j","e","c","t","s","/","P","/","b","o","a","r","d","s","/","1">>}
\* other paths under /jira/: board reports, a dashboard
OtherJiraPaths ==
  {<<"/","j","i","r","a","/","s","o","f","t","w","a","r","e","/","p","/","b","o","a","r","d","s","/","1","/","r","e","p","o","r","t","s">>,
   <<"/","j","i","r","a","/","d","a","s","h","b","o","a","r","d","s","/","1">>}
\* paths outside /jira/ that hold no /browse/<KEY>
NonJiraPaths ==
  {<<"/","b","r","o","w","s","e","/","A","-","1">>,
   <<"/","x","/","j","i","r","a","/","s","o","f","t","w","a","r","e","/","p","/","b","o","a","r","d","s","/","1">>,
   <<"/","s","e","c","u","r","e","/","D","a","s","h","b","o","a","r","d",".","j","s","p","a">>}
Paths == BrowseKeyPaths \cup BoardPaths \cup OtherJiraPaths \cup NonJiraPaths
\* query parameters named selectedIssue: with a well-formed value, with a
\* malformed value, with no value
SelectedIssueParams ==
  {<<"s","e","l","e","c","t","e","d","I","s","s","u","e","=","A","B","-","1">>,
   <<"s","e","l","e","c","t","e","d","I","s","s","u","e","=","i","n","v","a","l","i","d">>,
   <<"s","e","l","e","c","t","e","d","I","s","s","u","e">>}
OtherParams == {<<"r","a","p","i","d","V","i","e","w","=","1">>}
Params == SelectedIssueParams \cup OtherParams
\* a fragment that holds what the rules look for in the path and the query
DecoyFragment == <<"#","/","b","r","o","w","s","e","/","A","B","-","1","?","s","e","l","e","c","t","e","d","I","s","s","u","e","=","A","B","-","1">>
Fragments == {<<>>, DecoyFragment}

JoinParams(ps) ==
  LET join[i \in 1..Len(ps)] ==
        IF i = 1 THEN ps[1] ELSE join[i - 1] \o <<"&">> \o ps[i]
  IN IF Len(ps) = 0 THEN <<>> ELSE join[Len(ps)]
\* the URL written from its parts
Href(host, path, params, fragment) ==
  Scheme \o host \o path
    \o (IF params = <<>> THEN <<>> ELSE <<"?">> \o JoinParams(params))
    \o fragment
ParamLists == UNION {[1..n -> Params] : n \in 0..MaxParams}
\* the URLs a tab can show: every host, path, parameter list and fragment
Hrefs ==
  {Href(h, p, ps, f) : h \in Hosts, p \in Paths, ps \in ParamLists,
                       f \in Fragments}
\* other values a url argument can hold: absent, empty, unparsable strings
\* and URLs that the parser normalises
OtherUrls ==
  {Null, Undefined, <<>>,
   <<"n","o","t","-","a","-","u","r","l">>,
   <<"/","b","r","o","w","s","e","/","A","B","-","1">>,
   <<"x",".","a","t","l","a","s","s","i","a","n",".","n","e","t","/","b","r","o","w","s","e","/","A","B","-","1">>,
   <<"h","t","t","p","s",":","/","/">>,
   <<"a","b","o","u","t",":","b","l","a","n","k">>,
   <<"h","t","t","p","s",":","/","/","x"," ","y",".","a","t","l","a","s","s","i","a","n",".","n","e","t","/","b","r","o","w","s","e","/","A","B","-","1">>,
   <<"h","t","t","p","s",":","/","/","x",".","a","t","l","a","s","s","i","a","n",".","n","e","t","@","e","v","i","l",".","c","o","m","/","b","r","o","w","s","e","/","A","B","-","1">>,
   <<"H","T","T","P","S",":","/","/","X",".","A","T","L","A","S","S","I","A","N",".","N","E","T","/","B","R","O","W","S","E","/","a","b","-","1">>,
   <<"h","t","t","p","s",":","/","/","a","t","l","a","s","s","i","a","n",".","n","e","t","/","b","r","o","w","s","e","/","A","B","-","1">>,
   <<"h","t","t","p","s",":","/","/","x",".","a","t","l","a","s","s","i","a","n",".","n","e","t",":","8","4","4","3","/","b","r","o","w","s","e","/","A","B","-","1">>,
   <<"h","t","t","p","s",":","/","/","x",".","a","t","l","a","s","s","i","a","n",".","n","e","t","?","s","e","l","e","c","t","e","d","I","s","s","u","e","=","A","B","-","1">>,
   <<"f","t","p",":","/","/","x",".","a","t","l","a","s","s","i","a","n",".","n","e","t","/","j","i","r","a","/","x","?","s","e","l","e","c","t","e","d","I","s","s","u","e">>,
   <<"h","t","t","p","s",":","/","/","x",".","a","t","l","a","s","s","i","a","n",".","n","e","t","/","j","i","r","a","/","x","?","a","=","s","e","l","e","c","t","e","d","I","s","s","u","e","&","s","e","l","e","c","t","e","d","i","s","s","u","e","=","A","B","-","1">>}
Urls == Hrefs \cup OtherUrls

\* documents: what each selector finds
NoKeyElems == [i \in 1..NumKeySelectors |-> Null]
NoSummaryElems == [i \in 1..NumSummarySelectors |-> Null]
Breadcrumbs ==
  {Null,
   <<"C","D","-","2">>,
   <<" ","c","d","-","2"," ">>,
   <<"P","r","o","j","e","c","t","s">>,
   <<" ">>}
KeyElemLists ==
  {NoKeyElems,
   [NoKeyElems EXCEPT ![3] = <<"I","s","s","u","e"," ","e","f","-","3"," ","o","f"," ","E","F">>],
   [NoKeyElems EXCEPT ![2] = <<"P","r","o","j","e","c","t","s">>,
                      ![4] = <<"G","H","-","4">>]}
SummaryElemLists ==
  {NoSummaryElems,
   [NoSummaryElems EXCEPT ![1] = <<" "," ">>, ![3] = <<" ","F","i","x"," ","<","b",">"," ","&"," ","g","o"," ">>],
   [NoSummaryElems EXCEPT ![5] = <<"F","i","x"," ","b","u","g">>]}
Titles ==
  {<<>>,
   <<"[","i","j","-","5","]"," ","F","i","x"," ","b","u","g"," ","-"," ","J","i","r","a">>,
   <<"[","I","J","-","5","]"," ">>,
   <<"D","a","s","h","b","o","a","r","d"," ","-"," ","J","i","r","a">>}
Documents ==
  [breadcrumb : Breadcrumbs, keyElems : KeyElemLists,
   summaryElems : SummaryElemLists, title : Titles]
EmptyDocument ==
  [breadcrumb |-> Null, keyElems |-> NoKeyElems,
   summaryElems |-> NoSummaryElems, title |-> <<>>]
\* the pages every document is tried on
DocumentHrefs ==
  {Href(AtlassianHost, p, ps, <<>>) :
     p \in {<<"/","b","r","o","w","s","e","/","A","B","-","1">>,
            <<"/","j","i","r","a","/","s","o","f","t","w","a","r","e","/","p","/","b","o","a","r","d","s","/","1">>},
     ps \in {<<>>, <<<<"s","e","l","e","c","t","e","d","I","s","s","u","e","=","A","B","-","1">>>>,
             <<<<"s","e","l","e","c","t","e","d","I","s","s","u","e","=","i","n","v","a","l","i","d">>>>}}
Pages ==
  {[href |-> h, document |-> EmptyDocument] : h \in Hrefs}
    \cup {[href |-> h, document |-> d] : h \in DocumentHrefs, d \in Documents}

\* the IssueReference values generateFormats is called on
RefKeys ==
  {Null, Undefined, <<>>,
   <<"P","R","O","J","-","1","2","3">>,
   <<"a","b","-","1">>,
   <<"x">>}
RefSummaries ==
  {Null, <<>>,
   <<"F","i","x"," ","b","u","g">>,
   <<"a","<","b"," ","&"," ","c",">","d">>,
   <<" ">>}
RefUrls ==
  {<<"h","t","t","p","s",":","/","/","x",".","a","t","l","a","s","s","i","a","n",".","n","e","t","/","b","r","o","w","s","e","/","P","R","O","J","-","1","2","3">>,
   <<"h","t","t","p","s",":","/","/","x",".","a","t","l","a","s","s","i","a","n",".","n","e","t","/","j","i","r","a","/","x","?","a","=","1","&","b","=","2">>}
IssueReferences == [key : RefKeys, summary : RefSummaries, url : RefUrls]

\* part_000:170-176: the response to getIssueData
Response(issueData) ==
  [issueData |-> issueData, formats |-> generateFormats(issueData)]

(***************************************************************************)
(* Popup (popup/issue_copy.js).  The popup document is the record of the   *)
(* elements the script touches; a browser call is an entry of calls when   *)
(* it is made and an entry of settled when its promise settles.            *)
(***************************************************************************)
\* the most copy clicks in one run of the popup
MaxClicks == 2

\* lines 80-87
isJiraUrl(url) ==
  IF ~Truthy(url) THEN FALSE
  ELSE \/ includes(url, <<".","a","t","l","a","s","s","i","a","n",".","n","e","t","/">>)
       \/ includes(url, <<"/","j","i","r","a","/">>)
       \/ includes(url, <<"/","b","r","o","w","s","e","/">>)

\* sendMessage resolved with no response (undefined)
NoResponse == [undefined |-> TRUE]
\* lines 40 and 58: response && response.formats && response.issueData.key
Accepts(response) ==
  /\ response # NoResponse
  /\ response.formats # NullObject
  /\ Truthy(response.issueData.key)

NoSummaryText == <<"(","N","o"," ","s","u","m","m","a","r","y",")">>
\* lines 103-114
showIssueInfo(doc, issueData) ==
  [doc EXCEPT !.issueKey = issueData.key,
              !.issueSummary = IF Truthy(issueData.summary)
                               THEN issueData.summary ELSE NoSummaryText,
              !.issueInfoHidden = FALSE,
              !.errorMessageHidden = TRUE]
\* lines 119-127
showError(doc) ==
  [doc EXCEPT !.issueInfoHidden = TRUE,
              !.errorMessageHidden = FALSE,
              !.buttonGroupHidden = TRUE]
\* lines 132-139: every copy button is enabled and gets its click listener
enableButtons(doc) == [doc EXCEPT !.buttonsEnabled = TRUE]

\* lines 40-46 and 58-64: what a resolved getIssueData does to the formats
\* cache and the document
HandleResponse(formats, doc, response) ==
  IF Accepts(response)
  THEN [issueFormats |-> response.formats,
        document |-> enableButtons(showIssueInfo(doc, response.issueData))]
  ELSE [issueFormats |-> formats, document |-> showError(doc)]

\* mutant: the outer catch lets the exception go
InitCatch_Rethrow(doc) == [document |-> doc, completion |-> "threw"]
\* lines 71-74: catch (err) { console.error(...); showError(); }
InitCatch(doc) == [document |-> showError(doc), completion |-> "returned"]
\* lines 23-32: if (!tab) / if (!isJiraUrl(tab.url)) { showError(); return; }
InitReturnsError(doc) == [document |-> showError(doc), completion |-> "returned"]

\* mutant: the retry's catch injects and tries again
RetryCatch_Reinject(made, doc) ==
  [pc |-> "inject", calls |-> Append(made, "executeScript"), document |-> doc]
\* lines 65-68: catch (retryErr) { console.error(...); showError(); }
RetryCatch(made, doc) ==
  [pc |-> "done", calls |-> made, document |-> showError(doc)]

\* lines 47-50: catch (err) { ...; await injectContentScript(tab.id); ... }
FirstCatch(made) ==
  [pc |-> "inject", calls |-> Append(made, "executeScript")]

CopiedText == <<"C","o","p","i","e","d"," ","t","o"," ","c","l","i","p","b","o","a","r","d","!">>
FailedText == <<"F","a","i","l","e","d"," ","t","o"," ","c","o","p","y"," ","t","o"," ","c","l","i","p","b","o","a","r","d">>
\* lines 199-207
showCopiedFeedback(doc, button) ==
  [doc EXCEPT !.copied = @ \cup {button},
              !.toast = [text |-> CopiedText, hidden |-> FALSE,
                         hide |-> FALSE, error |-> FALSE]]
\* lines 223-228
showErrorFeedback(doc, message) ==
  [doc EXCEPT !.toast = [text |-> message, hidden |-> FALSE,
                         hide |-> FALSE, error |-> TRUE]]
\* lines 210-217 and 230-236: the timers a feedback starts, by delay in ms
CopiedTimer(button) == [delay |-> 1500, then |-> "copied", button |-> button]
ErrorTimer == [delay |-> 3000, then |-> "error", button |-> "none"]
HideTimer(kind) == [delay |-> 300, then |-> kind, button |-> "none"]
\* lines 211-212, 215, 231, 233-234: what a timer's callback does
TimerCallback(doc, timer) ==
  CASE timer.delay = 1500 ->
         [doc EXCEPT !.copied = @ \ {timer.button}, !.toast.hide = TRUE]
    [] timer.delay = 3000 -> [doc EXCEPT !.toast.hide = TRUE]
    [] timer.then = "copied" -> [doc EXCEPT !.toast.hidden = TRUE]
    [] OTHER -> [doc EXCEPT !.toast.hidden = TRUE, !.toast.error = FALSE]
\* the timers a callback starts: the 300 ms timer after the first stage
TimerStarts(timer) ==
  IF timer.delay = 300 THEN <<>> ELSE <<HideTimer(timer.then)>>
RemoveAt(s, i) ==
  [j \in 1..(Len(s) - 1) |-> IF j < i THEN s[j] ELSE s[j + 1]]

\* line 148: !issueFormats || !issueFormats[format]
Available(formats, format) ==
  /\ formats # NullObject
  /\ format \in DOMAIN formats
  /\ Truthy(formats[format])
\* lines 176-184: navigator.clipboard.write of one ClipboardItem
RichWrite(html, plainText, outcome) ==
  [api |-> "write", html |-> html, plain |-> plainText, ok |-> outcome = "ok"]
\* lines 160 and 192: navigator.clipboard.writeText
TextWrite(text, ok) == [api |-> "writeText", text |-> text, ok |-> ok]
\* mutant: no fallback after a failed rich write
copyHtmlToClipboard_NoFallback(html, plainText, rich, textOk) ==
  <<RichWrite(html, plainText, rich)>>
\* lines 173-194: the clipboard writes copyHtmlToClipboard attempts; it throws
\* when the last of them failed
copyHtmlToClipboard(html, plainText, rich, textOk) ==
  IF rich = "ok" THEN <<RichWrite(html, plainText, rich)>>
  ELSE <<RichWrite(html, plainText, rich), TextWrite(html, textOk)>>
\* lines 155-161: the writes of one click on an available format
CopyWrites(formats, format, rich, textOk) ==
  IF format = "html"
  THEN copyHtmlToClipboard(formats.html, formats.plainText, rich, textOk)
  ELSE <<TextWrite(formats[format], textOk)>>
\* lines 163-167: showCopiedFeedback when the try block completed,
\* showErrorFeedback from the catch
FeedbackOf(writes) ==
  IF writes[Len(writes)].ok THEN "copied" ELSE "error"
ClickResult(format, writes) ==
  [format |-> format, writes |-> writes, feedback |-> FeedbackOf(writes)]
\* lines 144-168
handleCopyClick(formats, format, rich, textOk) ==
  IF ~Available(formats, format)
  THEN [format |-> format, writes |-> <<>>, feedback |-> "none"]
  ELSE ClickResult(format, CopyWrites(formats, format, rich, textOk))

\* the active tab's url as tabs.query reports it
PopupTabUrls ==
  {Undefined,
   <<"h","t","t","p","s",":","/","/","x",".","a","t","l","a","s","s","i","a","n",".","n","e","t","/","b","r","o","w","s","e","/","A","B","-","1">>,
   <<"h","t","t","p","s",":","/","/","e","x","a","m","p","l","e",".","c","o","m","/","b","r","o","w","s","e","/","A","B","-","1">>,
   <<"h","t","t","p",":","/","/","j","i","r","a",".","e","x","a","m","p","l","e",".","c","o","m","/","s","e","c","u","r","e","/","D","a","s","h","b","o","a","r","d",".","j","s","p","a">>,
   <<"a","b","o","u","t",":","b","l","a","n","k">>}
\* how tabs.query settles: rejected, no tab, the active tab
QueryOutcomes ==
  {[ok |-> FALSE, response |-> [error |-> TRUE]],
   [ok |-> TRUE, response |-> [tabs |-> <<>>]]}
    \cup {[ok |-> TRUE, response |-> [tabs |-> <<[url |-> u]>>]] :
            u \in PopupTabUrls}
\* the pages whose content script answers the popup
PopupPages ==
  {[href |-> <<"h","t","t","p","s",":","/","/","x",".","a","t","l","a","s","s","i","a","n",".","n","e","t","/","b","r","o","w","s","e","/","A","B","-","1">>, document |-> EmptyDocument],
   [href |-> <<"h","t","t","p","s",":","/","/","x",".","a","t","l","a","s","s","i","a","n",".","n","e","t","/","b","r","o","w","s","e","/","A","B","-","1">>,
    document |-> [EmptyDocument EXCEPT
                    !.summaryElems = [NoSummaryElems EXCEPT ![5] = <<"F","i","x"," ","<","b",">">>]]],
   [href |-> <<"h","t","t","p","s",":","/","/","x",".","a","t","l","a","s","s","i","a","n",".","n","e","t","/","j","i","r","a","/","d","a","s","h","b","o","a","r","d","s","/","1">>, document |-> EmptyDocument],
   [href |-> <<"h","t","t","p","s",":","/","/","x",".","a","t","l","a","s","s","i","a","n",".","n","e","t","/","j","i","r","a","/","d","a","s","h","b","o","a","r","d","s","/","1">>,
    document |-> [EmptyDocument EXCEPT !.breadcrumb = <<" ">>]]}
\* how sendMessage settles: rejected, resolved with no response, resolved
\* with the content script's response
SendOutcomes ==
  {[ok |-> FALSE, response |-> [error |-> TRUE]],
   [ok |-> TRUE, response |-> NoResponse]}
    \cup {[ok |-> TRUE,
           response |-> Response(extractIssueData(p.href, p.document))] :
            p \in PopupPages}
\* data-format of the copy buttons: the four formats and one with no format
ButtonFormats == {"plainText", "markdown", "markdownShort", "html", "other"}
\* how the rich write ends: written, rejected, ClipboardItem not supported
RichOutcomes == {"ok", "rejected", "unsupported"}
NoClick == [format |-> "none", writes |-> <<>>, feedback |-> "none"]
HiddenToast == [text |-> <<>>, hidden |-> TRUE, hide |-> FALSE, error |-> FALSE]
\* the popup document before init: the three blocks as the page has them
PopupDocuments ==
  [issueInfoHidden : BOOLEAN, errorMessageHidden : BOOLEAN,
   buttonGroupHidden : BOOLEAN, issueKey : {<<>>}, issueSummary : {<<>>},
   buttonsEnabled : {FALSE}, copied : {{}}, toast : {HiddenToast}]

(***************************************************************************)
(* The state machine: one event or call with its arguments (request) and   *)
(* what its handler did (result).                                          *)
(***************************************************************************)
VARIABLES request, result
\* popup: position of init, browser calls made and settled, the formats
\* cache (line 9), the document, how init ended, the copy clicks
VARIABLES pc, calls, settled, issueFormats, popupDocument, initCompletion,
          clicks, lastClick, timers
\* background script: the browser's tabs, what the page action of each tab
\* was last told, the url each tab's last handled event carried, the
\* tabs.get calls in flight, whether the startup query has resolved
VARIABLES tabs, pageAction, carried, getting, started
\* content script: window.location.href, currentUrl (line 15), the
\* urlChanged messages sent
VARIABLES location, currentUrl, sent
callVars == <<request, result>>
popupVars ==
  <<pc, calls, settled, issueFormats, popupDocument, initCompletion, clicks,
    lastClick, timers>>
backgroundVars == <<tabs, pageAction, carried, getting, started>>
contentVars == <<location, currentUrl, sent>>
vars == <<callVars, popupVars, backgroundVars, contentVars>>

Pending == [done |-> FALSE]
\* no call is being handled
NoCall ==
  /\ request = [action |-> "none"]
  /\ result = Pending
\* the popup is not open
NoPopup ==
  /\ pc = "closed"
  /\ calls = <<>>
  /\ settled = <<>>
  /\ issueFormats = NullObject
  /\ popupDocument = [closed |-> TRUE]
  /\ initCompletion = "pending"
  /\ clicks = 0
  /\ lastClick = [format |-> "none"]
  /\ timers = <<>>
\* the background script is not running
NoBackground ==
  /\ tabs = <<>>
  /\ pageAction = <<>>
  /\ carried = <<>>
  /\ getting = {}
  /\ started = FALSE
\* no content script is running
NoContentScript ==
  /\ location = <<>>
  /\ currentUrl = <<>>
  /\ sent = <<>>
Requests ==
  {[action |-> "urlChanged", url |-> u] : u \in Urls}
    \cup {[action |-> "getIssueData", page |-> p] : p \in Pages}
    \cup {[action |-> "generateFormats", issueData |-> r] :
            r \in IssueReferences}

Init ==
  /\ request \in Requests
  /\ result = Pending
  /\ NoPopup
  /\ NoBackground
  /\ NoContentScript

\* background_script.js:115-120 (and 86-111: every listener hands a url to
\* updatePageAction): the urlChanged message's url decides show or hide
OnUrlChanged ==
  /\ request.action = "urlChanged"
  /\ result = Pending
  /\ result' = [done |-> TRUE, call |-> updatePageAction(request.url)]
  /\ UNCHANGED request
  /\ UNCHANGED <<popupVars, backgroundVars, contentVars>>

\* part_000:168-179: the content script answers getIssueData
OnGetIssueData ==
  /\ request.action = "getIssueData"
  /\ result = Pending
  /\ result' = [done |-> TRUE,
                 response |-> Response(extractIssueData(request.page.href,
                                                        request.page.document))]
  /\ UNCHANGED request
  /\ UNCHANGED <<popupVars, backgroundVars, contentVars>>

\* part_000:200-203: generateFormats called through window.__jiraCopyHelper
CallGenerateFormats ==
  /\ request.action = "generateFormats"
  /\ result = Pending
  /\ result' = [done |-> TRUE, formats |-> generateFormats(request.issueData)]
  /\ UNCHANGED request
  /\ UNCHANGED <<popupVars, backgroundVars, contentVars>>

Next == OnUrlChanged \/ OnGetIssueData \/ CallGenerateFormats
Spec == Init /\ [][Next]_vars

(***************************************************************************)
(* The popup's state machine: init (lines 14-75) step by step, the copy    *)
(* clicks and the feedback timers.                                         *)
(***************************************************************************)
PopupInit ==
  /\ pc = "loading"
  /\ calls = <<>>
  /\ settled = <<>>
  /\ issueFormats = NullObject
  /\ popupDocument \in PopupDocuments
  /\ initCompletion = "pending"
  /\ clicks = 0
  /\ lastClick = NoClick
  /\ timers = <<>>
  /\ NoCall
  /\ NoBackground
  /\ NoContentScript

\* line 240 and lines 17-20: DOMContentLoaded runs init, which queries the
\* active tab
DOMContentLoaded ==
  /\ pc = "loading"
  /\ pc' = "query"
  /\ calls' = Append(calls, "tabs.query")
  /\ UNCHANGED <<settled, issueFormats, popupDocument, initCompletion, clicks,
                 lastClick, timers>>
  /\ UNCHANGED <<callVars, backgroundVars, contentVars>>

\* init ends with the document and completion of ending
InitEnds(ending) ==
  /\ pc' = "done"
  /\ popupDocument' = ending.document
  /\ initCompletion' = ending.completion
  /\ UNCHANGED calls
\* lines 21-38 (and 71-74 when the query rejects)
AfterQuery(outcome) ==
  /\ settled' = Append(settled, outcome)
  /\ IF ~outcome.ok THEN InitEnds(InitCatch(popupDocument))
     ELSE IF outcome.response.tabs = <<>>
       THEN InitEnds(InitReturnsError(popupDocument))
     ELSE IF ~isJiraUrl(outcome.response.tabs[1].url)
       THEN InitEnds(InitReturnsError(popupDocument))
     ELSE /\ pc' = "send"
          /\ calls' = Append(calls, "sendMessage")
          /\ UNCHANGED <<popupDocument, initCompletion>>
  /\ UNCHANGED <<issueFormats, clicks, lastClick, timers>>
  /\ UNCHANGED <<callVars, backgroundVars, contentVars>>
TabsQuerySettles ==
  /\ pc = "query"
  /\ \E outcome \in QueryOutcomes : AfterQuery(outcome)

\* a resolved getIssueData is handled and the popup is done
Handled(handled) ==
  /\ pc' = "done"
  /\ issueFormats' = handled.issueFormats
  /\ popupDocument' = handled.document
\* the first catch has started the injection
Injecting(caught) ==
  /\ pc' = caught.pc
  /\ calls' = caught.calls
\* lines 36-50
AfterFirstSend(outcome) ==
  /\ settled' = Append(settled, outcome)
  /\ IF outcome.ok
     THEN /\ Handled(HandleResponse(issueFormats, popupDocument,
                                    outcome.response))
          /\ initCompletion' = "returned"
          /\ UNCHANGED calls
     ELSE /\ Injecting(FirstCatch(calls))
          /\ UNCHANGED <<issueFormats, popupDocument, initCompletion>>
  /\ UNCHANGED <<clicks, lastClick, timers>>
  /\ UNCHANGED <<callVars, backgroundVars, contentVars>>
FirstSendSettles ==
  /\ pc = "send"
  /\ \E outcome \in SendOutcomes : AfterFirstSend(outcome)

\* lines 92-98 and 53, 69: executeScript settles (a rejection is caught and
\* logged), the retry is scheduled and init returns
InjectSettles ==
  /\ pc = "inject"
  /\ \E ok \in BOOLEAN :
       settled' = Append(settled, [ok |-> ok, response |-> [none |-> TRUE]])
  /\ pc' = "timer"
  /\ initCompletion' = "returned"
  /\ UNCHANGED <<calls, issueFormats, popupDocument, clicks, lastClick, timers>>
  /\ UNCHANGED <<callVars, backgroundVars, contentVars>>

\* lines 53-57: the 100 ms timer fires and getIssueData is sent again
RetryTimerFires ==
  /\ pc = "timer"
  /\ pc' = "retry"
  /\ calls' = Append(calls, "sendMessage")
  /\ UNCHANGED <<settled, issueFormats, popupDocument, initCompletion, clicks,
                 lastClick, timers>>
  /\ UNCHANGED <<callVars, backgroundVars, contentVars>>

\* the retry's catch has run
RetryCaught(caught) ==
  /\ pc' = caught.pc
  /\ calls' = caught.calls
  /\ popupDocument' = caught.document
  /\ UNCHANGED issueFormats
\* lines 54-68
AfterRetrySend(outcome) ==
  /\ settled' = Append(settled, outcome)
  /\ IF outcome.ok
     THEN /\ Handled(HandleResponse(issueFormats, popupDocument,
                                    outcome.response))
          /\ UNCHANGED calls
     ELSE RetryCaught(RetryCatch(calls, popupDocument))
  /\ UNCHANGED <<initCompletion, clicks, lastClick, timers>>
  /\ UNCHANGED <<callVars, backgroundVars, contentVars>>
RetrySendSettles ==
  /\ pc = "retry"
  /\ \E outcome \in SendOutcomes : AfterRetrySend(outcome)

\* lines 163-167, 199-218, 223-237: the feedback of a click and its timer
Feedback(click) ==
  /\ lastClick' = click
  /\ popupDocument' =
       CASE click.feedback = "copied" ->
              showCopiedFeedback(popupDocument, click.format)
         [] click.feedback = "error" ->
              showErrorFeedback(popupDocument, FailedText)
         [] OTHER -> popupDocument
  /\ timers' =
       CASE click.feedback = "copied" ->
              Append(timers, CopiedTimer(click.format))
         [] click.feedback = "error" -> Append(timers, ErrorTimer)
         [] OTHER -> timers
\* lines 137 and 144-168: a click on an enabled copy button
CopyClick ==
  /\ popupDocument.buttonsEnabled
  /\ clicks < MaxClicks
  /\ clicks' = clicks + 1
  /\ \E format \in ButtonFormats, rich \in RichOutcomes, textOk \in BOOLEAN :
       Feedback(handleCopyClick(issueFormats, format, rich, textOk))
  /\ UNCHANGED <<pc, calls, settled, issueFormats, initCompletion>>
  /\ UNCHANGED <<callVars, backgroundVars, contentVars>>

\* lines 210-217 and 230-236: a feedback timer fires; timers of one delay
\* fire in the order they were started
TimerFires ==
  /\ \E i \in 1..Len(timers) :
       /\ \A j \in 1..(i - 1) : timers[j].delay # timers[i].delay
       /\ popupDocument' = TimerCallback(popupDocument, timers[i])
       /\ timers' = RemoveAt(timers, i) \o TimerStarts(timers[i])
  /\ UNCHANGED <<pc, calls, settled, issueFormats, initCompletion, clicks,
                 lastClick>>
  /\ UNCHANGED <<callVars, backgroundVars, contentVars>>

PopupNext ==
  \/ DOMContentLoaded
  \/ TabsQuerySettles
  \/ FirstSendSettles
  \/ InjectSettles
  \/ RetryTimerFires
  \/ RetrySendSettles
  \/ CopyClick
  \/ TimerFires
SpecPopup == PopupInit /\ [][PopupNext]_vars

(***************************************************************************)
(* The background script's listeners (background_script.js:85-120) over    *)
(* the browser's tabs.                                                     *)
(***************************************************************************)
\* the most tabs the browser has
MaxTabs == 2
TabIds == 1..MaxTabs
\* a closed tab; no event has carried a url
Closed == <<"closed">>
NoUrl == <<"none">>
IssueUrl == <<"h","t","t","p","s",":","/","/","x",".","a","t","l","a","s","s","i","a","n",".","n","e","t","/","b","r","o","w","s","e","/","A","B","-","1">>
DashboardUrl == <<"h","t","t","p","s",":","/","/","x",".","a","t","l","a","s","s","i","a","n",".","n","e","t","/","j","i","r","a","/","d","a","s","h","b","o","a","r","d","s","/","1">>
\* the urls a page can have
PageUrls == {IssueUrl, DashboardUrl}
\* tab.url: a page's url, or undefined when the tab's url is not visible
TabUrls == PageUrls \cup {Undefined}
\* changeInfo of tabs.onUpdated other than a url change
StatusChanges ==
  {[url |-> Undefined, status |-> "complete"],
   [url |-> Undefined, status |-> "loading"],
   [url |-> Undefined, status |-> "none"]}
\* the messages runtime.onMessage receives: urlChanged from a tab's content
\* script, urlChanged from a page of the extension (no sender.tab),
\* anything else from a tab
Messages ==
  [action : {"urlChanged"}, url : PageUrls, senderTab : TabIds \cup {0}]
    \cup [action : {"getIssueData"}, url : {Undefined}, senderTab : TabIds]
\* updatePageAction(url) for every url a listener can pass, computed once
PageActionFor == [u \in TabUrls |-> updatePageAction(u).pageAction]

\* mutant: only a url change is acted on
ShouldUpdate_UrlOnly(changeInfo) == Truthy(changeInfo.url)
\* line 88: changeInfo.url || changeInfo.status === "complete"
ShouldUpdate(changeInfo) ==
  Truthy(changeInfo.url) \/ changeInfo.status = "complete"
\* line 116: request.action === "urlChanged" && sender.tab; the tab whose
\* page action the message updates, 0 when the message is ignored
MessageTab(message) ==
  IF message.action = "urlChanged" /\ message.senderTab # 0
  THEN message.senderTab ELSE 0
\* line 107: if (tab.id && tab.url); tab ids are positive
ScanCovers(url) == Truthy(url)
\* lines 77-83 on the browser's page actions: show or hide for tab tabId
SetPageAction(actions, tabId, url) ==
  [actions EXCEPT ![tabId] = PageActionFor[url]]

BackgroundInit ==
  /\ tabs \in [TabIds -> TabUrls]
  /\ pageAction \in [TabIds -> {"show", "hide"}]
  /\ carried = [t \in TabIds |-> NoUrl]
  /\ getting = {}
  /\ started = FALSE
  /\ NoCall
  /\ NoPopup
  /\ NoContentScript

\* lines 86-91: tabs.onUpdated for a url change of tab t
OnUpdatedUrl(t) ==
  /\ tabs[t] # Closed
  /\ \E u \in PageUrls :
       /\ tabs' = [tabs EXCEPT ![t] = u]
       /\ carried' = [carried EXCEPT ![t] = u]
       /\ pageAction' =
            IF ShouldUpdate([url |-> u, status |-> "loading"])
            THEN SetPageAction(pageAction, t, u) ELSE pageAction
  /\ UNCHANGED <<getting, started>>
  /\ UNCHANGED <<callVars, popupVars, contentVars>>
\* lines 86-91: tabs.onUpdated for tab t with no url in changeInfo: a status
\* or another property changed, or the tab went to url u that is not visible
OnUpdatedWith(t, changeInfo, u) ==
  /\ tabs[t] # Closed
  /\ changeInfo.status = "complete" => u = tabs[t]
  /\ tabs' = [tabs EXCEPT ![t] = u]
  /\ carried' =
       IF changeInfo.status = "complete"
       THEN [carried EXCEPT ![t] = u] ELSE carried
  /\ pageAction' =
       IF ShouldUpdate(changeInfo)
       THEN SetPageAction(pageAction, t, u) ELSE pageAction
  /\ UNCHANGED <<getting, started>>
  /\ UNCHANGED <<callVars, popupVars, contentVars>>
OnUpdatedOther(t) ==
  \E changeInfo \in StatusChanges, u \in {tabs[t], Undefined} :
    OnUpdatedWith(t, changeInfo, u)
\* lines 94-96: tabs.onActivated for tab t calls tabs.get
OnActivated(t) ==
  /\ tabs[t] # Closed
  /\ getting' = getting \cup {t}
  /\ UNCHANGED <<tabs, pageAction, carried, started>>
  /\ UNCHANGED <<callVars, popupVars, contentVars>>
\* lines 96-101: tabs.get settles; a rejection (the tab was closed) is caught
TabsGetSettles(t) ==
  /\ t \in getting
  /\ getting' = getting \ {t}
  /\ IF tabs[t] = Closed
     THEN UNCHANGED <<pageAction, carried>>
     ELSE /\ pageAction' = SetPageAction(pageAction, t, tabs[t])
          /\ carried' = [carried EXCEPT ![t] = tabs[t]]
  /\ UNCHANGED <<tabs, started>>
  /\ UNCHANGED <<callVars, popupVars, contentVars>>
\* the browser closes tab t
TabClosed(t) ==
  /\ tabs[t] # Closed
  /\ tabs' = [tabs EXCEPT ![t] = Closed]
  /\ UNCHANGED <<pageAction, carried, getting, started>>
  /\ UNCHANGED <<callVars, popupVars, contentVars>>
\* lines 105-111: the startup tabs.query({}) resolves with the open tabs
StartupQueryResolves ==
  /\ ~started
  /\ started' = TRUE
  /\ pageAction' =
       [t \in TabIds |->
          IF tabs[t] # Closed /\ ScanCovers(tabs[t])
          THEN PageActionFor[tabs[t]] ELSE pageAction[t]]
  /\ carried' =
       [t \in TabIds |->
          IF tabs[t] # Closed /\ Truthy(tabs[t]) THEN tabs[t] ELSE carried[t]]
  /\ UNCHANGED <<tabs, getting>>
  /\ UNCHANGED <<callVars, popupVars, contentVars>>
\* lines 115-120: runtime.onMessage
OnMessage(message) ==
  /\ message.senderTab # 0 => tabs[message.senderTab] # Closed
  /\ pageAction' =
       IF MessageTab(message) # 0
       THEN SetPageAction(pageAction, MessageTab(message), message.url)
       ELSE pageAction
  /\ carried' =
       IF message.action = "urlChanged" /\ message.senderTab # 0
       THEN [carried EXCEPT ![message.senderTab] = message.url] ELSE carried
  /\ UNCHANGED <<tabs, getting, started>>
  /\ UNCHANGED <<callVars, popupVars, contentVars>>

BackgroundNext ==
  \/ \E t \in TabIds : OnUpdatedUrl(t)
  \/ \E t \in TabIds : OnUpdatedOther(t)
  \/ \E t \in TabIds : OnActivated(t)
  \/ \E t \in TabIds : TabsGetSettles(t)
  \/ \E t \in TabIds : TabClosed(t)
  \/ StartupQueryResolves
  \/ \E message \in Messages : OnMessage(message)
SpecBackground == BackgroundInit /\ [][BackgroundNext]_vars

(***************************************************************************)
(* The content script's url watcher (part_000:14-15, 152-165, 181-197).    *)
(***************************************************************************)
\* the most urlChanged messages followed
MaxMessages == 3
\* the urls the page goes through
LocationUrls ==
  {IssueUrl, DashboardUrl,
   <<"h","t","t","p","s",":","/","/","x",".","a","t","l","a","s","s","i","a","n",".","n","e","t","/","j","i","r","a","/","s","o","f","t","w","a","r","e","/","p","/","b","o","a","r","d","s","/","1","?","s","e","l","e","c","t","e","d","I","s","s","u","e","=","A","B","-","1">>}
\* mutant: the message is sent on every trigger
notifyUrlChange_Always(newUrl, recorded, messages, delivered) ==
  [currentUrl |-> newUrl,
   sent |-> Append(messages, [url |-> newUrl, delivered |-> delivered])]
\* lines 152-165: newUrl is window.location.href; a rejected send is ignored
notifyUrlChange(newUrl, recorded, messages, delivered) ==
  IF newUrl # recorded
  THEN [currentUrl |-> newUrl,
        sent |-> Append(messages, [url |-> newUrl, delivered |-> delivered])]
  ELSE [currentUrl |-> recorded, sent |-> messages]

\* line 15: let currentUrl = window.location.href
ContentInit ==
  /\ location \in LocationUrls
  /\ currentUrl = location
  /\ sent = <<>>
  /\ NoCall
  /\ NoPopup
  /\ NoBackground

\* notifyUrlChange has run
Notified(after) ==
  /\ currentUrl' = after.currentUrl
  /\ sent' = after.sent
\* a trigger runs notifyUrlChange on the page's url
Trigger ==
  /\ Len(sent) < MaxMessages
  /\ \E delivered \in BOOLEAN :
       Notified(notifyUrlChange(location', currentUrl, sent, delivered))
  /\ UNCHANGED <<callVars, popupVars, backgroundVars>>
\* the single-page app goes to another url (history.pushState)
PushState ==
  /\ \E u \in LocationUrls \ {location} : location' = u
  /\ UNCHANGED <<currentUrl, sent>>
  /\ UNCHANGED <<callVars, popupVars, backgroundVars>>
\* lines 183-191: the MutationObserver's callback
OnMutation ==
  /\ UNCHANGED location
  /\ Trigger
\* line 194: popstate, after back or forward has changed the url
OnPopState ==
  /\ \E u \in LocationUrls \ {location} : location' = u
  /\ Trigger
\* line 197: setInterval(notifyUrlChange, 2000)
OnInterval ==
  /\ UNCHANGED location
  /\ Trigger

ContentNext == PushState \/ OnMutation \/ OnPopState \/ OnInterval
SpecContent == ContentInit /\ [][ContentNext]_vars
(***************************************************************************)
(* Properties.                                                             *)
(***************************************************************************)
\* the handler of the urlChanged message has run on request.url
Classified == request.action = "urlChanged" /\ result.done
Shown == result.call = [threw |-> FALSE, pageAction |-> "show"]
Hidden == result.call = [threw |-> FALSE, pageAction |-> "hide"]
\* the content script has answered getIssueData
Answered == request.action = "getIssueData" /\ result.done
\* generateFormats has been called on request.issueData
Generated == request.action = "generateFormats" /\ result.done
\* a parameter list carries a selectedIssue parameter
CarriesSelectedIssue(ps) == \E i \in 1..Len(ps) : ps[i] \in SelectedIssueParams
\* the generated URLs with the given hosts, paths and parameter lists, and any
\* fragment
HrefsOf(hosts, paths, lists) ==
  {Href(h, p, ps, f) : h \in hosts, p \in paths, ps \in lists, f \in Fragments}
WithSelectedIssue == {ps \in ParamLists : CarriesSelectedIssue(ps)}
WithoutSelectedIssue == ParamLists \ WithSelectedIssue
\* URLs whose path holds /browse/<KEY>: on any host, on the Atlassian host
BrowseKeyHrefs == HrefsOf(Hosts, BrowseKeyPaths, ParamLists)
AtlassianBrowseKeyHrefs == HrefsOf({AtlassianHost}, BrowseKeyPaths, ParamLists)
\* board, backlog and timeline URLs on the Atlassian host
BoardHrefsSelected == HrefsOf({AtlassianHost}, BoardPaths, WithSelectedIssue)
BoardHrefsUnselected == HrefsOf({AtlassianHost}, BoardPaths, WithoutSelectedIssue)
\* URLs on the Atlassian host with a path under /jira/ and selectedIssue
JiraHrefsSelected ==
  HrefsOf({AtlassianHost}, BoardPaths \cup OtherJiraPaths, WithSelectedIssue)
\* URLs with no /browse/<KEY> in the path and no selectedIssue
PlainHrefs == HrefsOf(Hosts, Paths \ BrowseKeyPaths, WithoutSelectedIssue)
FormatNames == {"plainText", "markdown", "markdownShort", "html"}

\* C1: a URL whose hostname does not end with .atlassian.net is rejected,
\* whatever its path and query (look-alike hosts and /browse/<KEY> included).
C1_NonAtlassianRejected ==
  (Classified /\ Truthy(request.url) /\ ParseUrl(request.url).ok
     /\ ~endsWith(ParseUrl(request.url).hostname, AtlassianSuffix))
    => Hidden
\* C1 witness: a look-alike host with a /browse/<KEY> path and a selectedIssue
\* parameter was classified and rejected.
C1_Witness ==
  /\ Classified
  /\ request.url = Href(<<"n","o","t","a","t","l","a","s","s","i","a","n",".","n","e","t">>, <<"/","b","r","o","w","s","e","/","A","B","-","1">>,
                        <<<<"s","e","l","e","c","t","e","d","I","s","s","u","e","=","A","B","-","1">>>>, <<>>)
  /\ Hidden

\* C2 as stated: every URL matching /browse/<KEY> is accepted, whatever its
\* host, query string and fragment.
C2_Original ==
  (Classified /\ request.url \in BrowseKeyHrefs) => Shown
\* C2 amended: every URL on an .atlassian.net host whose path holds
\* /browse/<KEY> (case-insensitive) is accepted, whatever its query string and
\* fragment.
C2_BrowseAccepted ==
  (Classified /\ request.url \in AtlassianBrowseKeyHrefs) => Shown
\* C2 witness: a lower-case /browse/<key> path with a query and a fragment was
\* accepted.
C2_Witness ==
  /\ Classified
  /\ request.url = Href(AtlassianHost, <<"/","b","r","o","w","s","e","/","a","b","-","1","/","x">>,
                        <<<<"r","a","p","i","d","V","i","e","w","=","1">>>>, DecoyFragment)
  /\ Shown

\* C3: a board, backlog or timeline URL on an .atlassian.net host is accepted
\* iff it carries a selectedIssue parameter, whatever the parameter's value
\* and the other parameters.
C3_BoardIffSelectedIssue ==
  /\ (Classified /\ request.url \in BoardHrefsSelected) => Shown
  /\ (Classified /\ request.url \in BoardHrefsUnselected) => Hidden
\* C3 witness: a backlog URL whose selectedIssue value is no issue key, after
\* another parameter, was accepted.
C3_Witness ==
  /\ Classified
  /\ request.url = Href(AtlassianHost, <<"/","j","i","r","a","/","s","o","f","t","w","a","r","e","/","p","/","b","o","a","r","d","s","/","1","/","b","a","c","k","l","o","g">>,
                        <<<<"r","a","p","i","d","V","i","e","w","=","1">>,
                          <<"s","e","l","e","c","t","e","d","I","s","s","u","e","=","i","n","v","a","l","i","d">>>>, <<>>)
  /\ Shown

\* C4: a null, undefined or empty url and every string that does not parse as
\* a URL is rejected, and no exception reaches the caller.
C4_FailsClosed ==
  (Classified /\ (~Truthy(request.url) \/ ~ParseUrl(request.url).ok))
    => Hidden
\* C4 witness: a string that is no URL was classified, and rejected without an
\* exception.
C4_Witness ==
  /\ Classified
  /\ request.url = <<"n","o","t","-","a","-","u","r","l">>
  /\ ~ParseUrl(request.url).ok
  /\ Hidden

\* C5: a URL on an .atlassian.net host whose path begins with /jira/ and
\* that carries a selectedIssue parameter is accepted, whatever the rest of
\* the path (board views included).
C5_JiraSelectedIssueAccepted ==
  (Classified /\ request.url \in JiraHrefsSelected) => Shown
\* C5 witness: a dashboard URL with a selectedIssue parameter was accepted.
C5_Witness ==
  /\ Classified
  /\ request.url = Href(AtlassianHost, <<"/","j","i","r","a","/","d","a","s","h","b","o","a","r","d","s","/","1">>,
                        <<<<"s","e","l","e","c","t","e","d","I","s","s","u","e","=","A","B","-","1">>>>, <<>>)
  /\ Shown

\* C6: a URL without a selectedIssue parameter whose path holds no
\* /browse/<KEY> is rejected: an accepted URL has /browse/<KEY> in its path
\* or carries selectedIssue.
C6_OtherwiseRejected ==
  /\ (Classified /\ request.url \in PlainHrefs) => Hidden
  /\ (Classified /\ Shown)
       => \/ BrowseIssueTest(ParseUrl(request.url).pathname)
          \/ searchParamsHas(ParseUrl(request.url).search, SelectedIssue)
\* C6 witness: a board reports URL without selectedIssue was rejected.
C6_Witness ==
  /\ Classified
  /\ request.url = Href(AtlassianHost, <<"/","j","i","r","a","/","s","o","f","t","w","a","r","e","/","p","/","b","o","a","r","d","s","/","1","/","r","e","p","o","r","t","s">>,
                        <<<<"r","a","p","i","d","V","i","e","w","=","1">>>>, <<>>)
  /\ Hidden

\* C7: the fragment is ignored: a URL gets the result of the same URL with
\* its fragment cut off.
C7_FragmentIgnored ==
  (Classified /\ IsStr(request.url))
    => result.call = updatePageAction(Before(request.url, {"#"}))
\* C7 witness: a URL that holds /browse/<KEY> and selectedIssue= in its
\* fragment only was rejected.
C7_Witness ==
  /\ Classified
  /\ request.url = Href(AtlassianHost, <<"/","j","i","r","a","/","d","a","s","h","b","o","a","r","d","s","/","1">>, <<>>, DecoyFragment)
  /\ Hidden

\* C8 as stated: the key extractIssueData returns is null or matches
\* [A-Z][A-Z0-9]+-[0-9]+ in upper case, whichever strategy produced it.
C8_KeyWellFormed ==
  Answered
    => \/ result.response.issueData.key = Null
       \/ /\ IsIssueKey(result.response.issueData.key)
          /\ result.response.issueData.key
               = toUpperCase(result.response.issueData.key)

\* C9 as stated: when the classifier accepts a URL, the content script's
\* URL-based extraction (the /browse/<KEY> match, then the selectedIssue
\* parameter) on that URL yields a key.
C9_ShownImpliesUrlKey ==
  (Classified /\ Shown)
    => Truthy(KeyFromSelectedIssue(KeyFromBrowseUrl(request.url),
                                   Search(request.url)))

\* C10: generateFormats returns null exactly when the key is absent (null,
\* undefined or empty); otherwise it returns an object that holds the four
\* formats, with or without a summary.
C10_NullIffNoKey ==
  /\ Generated
       => /\ (result.formats = NullObject)
               <=> (request.issueData.key \in {Null, Undefined, <<>>})
          /\ result.formats # NullObject
               => /\ DOMAIN result.formats = FormatNames
                  /\ \A n \in FormatNames : Truthy(result.formats[n])
  /\ Answered
       => /\ (result.response.formats = NullObject)
               <=> (result.response.issueData.key \in {Null, Undefined, <<>>})
          /\ result.response.formats # NullObject
               => DOMAIN result.response.formats = FormatNames
\* C10 witness: generateFormats was called with a key and no summary and
\* returned the four formats.
C10_Witness ==
  /\ Generated
  /\ Truthy(request.issueData.key)
  /\ request.issueData.summary = Null
  /\ result.formats # NullObject
  /\ DOMAIN result.formats = FormatNames

\* the plain format the statement describes: KEY - summary, or the bare KEY
\* when the summary is null or empty
PlainOf(ref) ==
  IF ref.summary \in {Null, <<>>} THEN ref.key
  ELSE ref.key \o <<" ", "-", " ">> \o ref.summary
\* the four formats as the statement spells them, for reference ref
HasStatedContents(ref, formats) ==
  /\ formats # NullObject
  /\ formats.plainText = PlainOf(ref)
  /\ formats.markdown
       = <<"[">> \o formats.plainText \o <<"]", "(">> \o ref.url \o <<")">>
  /\ formats.markdownShort
       = <<"[">> \o ref.key \o <<"]", "(">> \o ref.url \o <<")">>
  /\ formats.html
       = AnchorOpen \o ref.url \o <<"\"", ">">>
           \o escapeHtml(formats.plainText) \o AnchorClose
  /\ \A i \in 1..Len(escapeHtml(formats.plainText)) :
       escapeHtml(formats.plainText)[i] \notin {"<", ">"}

InitCalls == <<"tabs.query", "sendMessage", "executeScript", "sendMessage">>
IsPrefix(s, t) ==
  /\ Len(s) <= Len(t)
  /\ \A i \in 1..Len(s) : s[i] = t[i]
Count(s, x) == Cardinality({i \in 1..Len(s) : s[i] = x})
\* the visible unavailable state: error message shown, issue info and button
\* group hidden
Unavailable ==
  /\ ~popupDocument.errorMessageHidden
  /\ popupDocument.issueInfoHidden
  /\ popupDocument.buttonGroupHidden

\* C12: in every run of init the content script is injected at most once and
\* getIssueData is sent at most twice; the injection is made only after the
\* first send failed, the second send only after the injection has settled;
\* a failed second send ends in the error state with no further call.
C12_SingleRetry ==
  /\ Count(calls, "executeScript") <= 1
  /\ Count(calls, "sendMessage") <= 2
  /\ IsPrefix(calls, InitCalls)
  /\ Len(calls) >= 3 => ~settled[2].ok
  /\ Len(calls) = 4 => Len(settled) >= 3
  /\ (Len(settled) = 4 /\ ~settled[4].ok) => (pc = "done" /\ Unavailable)
\* C12 witness: both sends failed, the injection in between was made, and the
\* popup is done in the error state.
C12_Witness ==
  /\ calls = InitCalls
  /\ Len(settled) = 4
  /\ ~settled[2].ok
  /\ ~settled[4].ok
  /\ pc = "done"
  /\ Unavailable

\* the failures of init, read off the settled calls
QueryFailed == Len(settled) >= 1 /\ ~settled[1].ok
NoActiveTab ==
  /\ Len(settled) >= 1
  /\ settled[1].ok
  /\ settled[1].response.tabs = <<>>
NotJira ==
  /\ Len(settled) >= 1
  /\ settled[1].ok
  /\ settled[1].response.tabs # <<>>
  /\ ~isJiraUrl(settled[1].response.tabs[1].url)
\* the last getIssueData resolved
Resolved ==
  /\ Len(settled) \in {2, 4}
  /\ settled[Len(settled)].ok
ResponseRefused == Resolved /\ ~Accepts(settled[Len(settled)].response)
ResponseAccepted == Resolved /\ Accepts(settled[Len(settled)].response)
RetryFailed == Len(settled) = 4 /\ ~settled[4].ok
InjectionFailed == Len(settled) >= 3 /\ ~settled[3].ok
\* the error state: unavailable, nothing cached, buttons never enabled
ErrorState ==
  /\ Unavailable
  /\ issueFormats = NullObject
  /\ ~popupDocument.buttonsEnabled
\* issue info shown and buttons enabled only after an accepted response
OnlyAfterAccepted ==
  (\/ popupDocument.buttonsEnabled
   \/ issueFormats # NullObject
   \/ (pc = "done" /\ ~popupDocument.issueInfoHidden))
    => (pc = "done" /\ ResponseAccepted)

\* C13 as stated: every failure of init, an injection failure among them,
\* ends in the error state.
C13_Original ==
  /\ initCompletion # "threw"
  /\ (pc = "done" /\ (\/ QueryFailed \/ NoActiveTab \/ NotJira
                      \/ ResponseRefused \/ RetryFailed \/ InjectionFailed))
       => ErrorState
  /\ OnlyAfterAccepted
\* C13: no active tab, a tab url that is not Jira's, a refused response, a
\* failed retry and a rejected tabs.query all end in the error state (error
\* message shown, issue info and buttons hidden, no formats cached, buttons
\* not enabled); no exception leaves init; issue info is shown and buttons
\* are enabled only after an accepted response.
C13_FailuresEndUnavailable ==
  /\ initCompletion # "threw"
  /\ (pc = "done" /\ (\/ QueryFailed \/ NoActiveTab \/ NotJira
                      \/ ResponseRefused \/ RetryFailed))
       => ErrorState
  /\ OnlyAfterAccepted
\* C13 witness: tabs.query rejected and init returned in the error state.
C13_Witness ==
  /\ pc = "done"
  /\ QueryFailed
  /\ initCompletion = "returned"
  /\ ErrorState

\* C14: a click on html attempts the rich write of the anchor and the plain
\* text first and, when that fails, exactly one writeText of the anchor; any
\* other available format is one writeText; the success feedback is shown iff
\* a write succeeded, the failure toast iff the last write failed; a click on
\* a format that is not available writes nothing and shows nothing.
C14_ClipboardFallback ==
  clicks > 0 =>
    /\ ~Available(issueFormats, lastClick.format)
         => (lastClick.writes = <<>> /\ lastClick.feedback = "none")
    /\ (Available(issueFormats, lastClick.format) /\ lastClick.format = "html")
         => /\ lastClick.writes[1].api = "write"
            /\ lastClick.writes[1].html = issueFormats.html
            /\ lastClick.writes[1].plain = issueFormats.plainText
            /\ lastClick.writes[1].ok => Len(lastClick.writes) = 1
            /\ ~lastClick.writes[1].ok
                 => /\ Len(lastClick.writes) = 2
                    /\ lastClick.writes[2].api = "writeText"
                    /\ lastClick.writes[2].text = issueFormats.html
    /\ (Available(issueFormats, lastClick.format) /\ lastClick.format # "html")
         => /\ Len(lastClick.writes) = 1
            /\ lastClick.writes[1].api = "writeText"
            /\ lastClick.writes[1].text = issueFormats[lastClick.format]
    /\ lastClick.feedback = "copied"
         <=> \E i \in 1..Len(lastClick.writes) : lastClick.writes[i].ok
    /\ lastClick.feedback = "error"
         <=> /\ lastClick.writes # <<>>
             /\ ~lastClick.writes[Len(lastClick.writes)].ok
\* C14 witness: an html click whose rich write failed and whose writeText
\* fallback succeeded, with the success feedback on screen.
C14_Witness ==
  /\ lastClick.format = "html"
  /\ Len(lastClick.writes) = 2
  /\ ~lastClick.writes[1].ok
  /\ lastClick.writes[2].ok
  /\ lastClick.feedback = "copied"
  /\ popupDocument.toast.text = CopiedText
  /\ ~popupDocument.toast.hidden

\* what the classifier says of every url an event can carry, computed once
VisibilityFor ==
  [u \in TabUrls |-> IF hasIdentifiableIssue(u).value THEN "show" ELSE "hide"]
\* an event of tab t
EventOf(t) ==
  \/ OnUpdatedUrl(t)
  \/ OnUpdatedOther(t)
  \/ OnActivated(t)
  \/ TabsGetSettles(t)
  \/ TabClosed(t)
  \/ \E message \in Messages : message.senderTab = t /\ OnMessage(message)
\* C15: each tab's page action is shown iff the classifier is true for the
\* url carried by the tab's most recent handled event (a tab update with a url
\* change or status complete, an activation, the startup scan, a urlChanged
\* message from the tab), and hidden otherwise; an event of one tab leaves
\* the page action of every other tab alone; a tab update with neither a url
\* change nor status complete changes no page action.
C15_VisibilityTracksClassifier ==
  /\ [](\A t \in TabIds :
          carried[t] # NoUrl => pageAction[t] = VisibilityFor[carried[t]])
  /\ [][\A o \in TabIds :
          pageAction'[o] # pageAction[o]
            => \A t \in TabIds \ {o} : ~EventOf(t)]_vars
  /\ [][pageAction' # pageAction
          => \A t \in TabIds, u \in TabUrls, changeInfo \in StatusChanges :
               changeInfo.status # "complete"
                 => ~OnUpdatedWith(t, changeInfo, u)]_vars
\* C15 witness: tab 1 shows the dashboard but its content script last
\* reported the issue page, tab 2's last event carried the dashboard: the
\* page action is shown for tab 1 and hidden for tab 2.
C15_Witness ==
  /\ started
  /\ tabs[1] = DashboardUrl
  /\ carried[1] = IssueUrl
  /\ pageAction[1] = "show"
  /\ carried[2] = DashboardUrl
  /\ pageAction[2] = "hide"

\* C16: a urlChanged message is sent only when the page's url differs from
\* the recorded one and carries the page's url at the trigger, which is
\* recorded whether or not the send succeeds; a trigger on an unchanged url
\* sends nothing; no two consecutive messages carry the same url.
C16_NotifyOnChangeOnly ==
  /\ [](/\ \A i \in 1..(Len(sent) - 1) : sent[i].url # sent[i + 1].url
        /\ sent # <<>> => currentUrl = sent[Len(sent)].url)
  /\ [][/\ sent' # sent
             => /\ location' # currentUrl
                /\ Len(sent') = Len(sent) + 1
                /\ SubSeq(sent', 1, Len(sent)) = sent
                /\ sent'[Len(sent')].url = location'
                /\ currentUrl' = location'
        /\ (OnMutation \/ OnPopState \/ OnInterval)
             => (location' = currentUrl => sent' = sent)
        /\ (OnMutation \/ OnPopState \/ OnInterval)
             => (location' # currentUrl => sent' # sent)]_vars
\* C16 witness: a send failed, the page left and came back to the same url,
\* and that url was sent again only after the url in between.
C16_Witness ==
  /\ Len(sent) = 3
  /\ ~sent[1].delivered
  /\ sent[3].url = sent[1].url
  /\ sent[2].url # sent[1].url
  /\ currentUrl = sent[3].url
  /\ location # currentUrl
====
